---- MODULE Spec2Model ----
(***************************************************************************)
(* Model of src/task.cpp: a single host thread that drives an OpenCL       *)
(* vector-addition pipeline (device selection, context, program build,     *)
(* queue, kernel, buffers, uploads, argument binding, enqueue, wait,       *)
(* download, timing report, release), and the device that executes the     *)
(* enqueued kernel.  Every OpenCL entry point is an environment call whose *)
(* outcome (success or an error code) is chosen nondeterministically where *)
(* the OpenCL runtime may fail; the host code's reaction to that outcome   *)
(* is translated from the source.                                          *)
(*                                                                         *)
(* Host arrays and device buffers are sequences 1..SZ; index i of the      *)
(* source is position i+1 here.                                            *)
(***************************************************************************)
EXTENDS Integers, Sequences, FiniteSets, TLC

\* ------------------------------------------------------------------ bounds
MaxSZ == 2          \* element counts 1..MaxSZ stand for argv[1]
MaxFaultSZ == 1     \* element counts 1..MaxFaultSZ of the runs whose environment may fail
MaxPlatforms == 2   \* number of installed OpenCL platforms, 0..MaxPlatforms
MaxLogLen == 2
MaxPreviewN == 21
MaxPreviewOff == 1      \* length of a compiler build log, 0..MaxLogLen characters

\* ------------------------------------------------- constants of the program
RandMod == 100                 \* rand() % 100
CL_SUCCESS == 0
CL_DEVICE_NOT_FOUND == -1
PreviewThreshold == 15         \* print(): size > 15
PreviewEdge == 5               \* print(): first 5, last 5

\* Error codes the OpenCL runtime returns from a failing call: every cl_int
\* error is negative; CL_OUT_OF_RESOURCES (-5) stands for a failure that does
\* not depend on the arguments.
ErrCodes == {-5}
CL_INVALID_MEM_OBJECT == -38
CL_INVALID_ARG_SIZE == -51
CL_INVALID_KERNEL_ARGS == -52
CL_INVALID_EVENT == -58

\* Values init() may store: rand() % 100 lies in 0..RandMod-1; the two
\* extremes are drawn.
Vals == {0, RandMod - 1}
\* Values an indeterminate int read from uninitialised device memory may have
\* (a sample containing every value a correct sum can take).
OutVals == {a + b : a \in Vals, b \in Vals}

DeviceTypes == {"GPU", "CPU"}

VARIABLES
    pc,          \* position of the host thread in main()
    terminated,  \* the process has ended (exit(1) or return from main)
    exitStatus,  \* its exit status (meaningful when terminated)
    SZ,          \* global int SZ
    v1, v2, v_out,           \* host arrays (<<>> before init)
    platforms,   \* environment: installed platforms, each its set of device types
    faulty,      \* environment: the OpenCL runtime and the file system may fail calls
    buildLog,    \* the compiler log the program object holds after a failed build
    device_id,   \* "none" or the type of the selected device
    context, program, queue, kernel,   \* handles: "NULL", "valid", "released"
    bufV1, bufV2, bufV_out,            \* cl_mem handles: "NULL", "valid", "released"
    devmem,      \* device memory: contents of each buffer (<<>>: indeterminate)
    kargs,       \* the kernel's positional argument list
    event,       \* cl_event event: "NULL" or "valid"
    kernelState, \* device side: "idle", "queued" (submitted, running), "complete"
    err,         \* global int err
    calls,       \* history: the external calls made, in order, with their results
    output       \* history: what was printed

vars == <<pc, terminated, exitStatus, SZ, v1, v2, v_out, platforms, faulty, buildLog,
          device_id, context, program, queue, kernel, bufV1, bufV2, bufV_out,
          devmem, kargs, event, kernelState, err, calls, output>>

\* ------------------------------------------------------------------ helpers
Call(op, obj, ret) == [op |-> op, obj |-> obj, ret |-> ret]

Arrays(n, S) == [1..n -> S]

SeqsUpTo(n, S) == UNION {[1..k -> S] : k \in 0..n}

Unset == [tag |-> "unset", n |-> 0, buf |-> "none"]
IntArg(n) == [tag |-> "int", n |-> n, buf |-> "none"]
MemArg(b) == [tag |-> "mem", n |-> 0, buf |-> b]

\* The handle value of a cl_mem global, by name.
BufHandle(b) == CASE b = "bufV1" -> bufV1
                  [] b = "bufV2" -> bufV2
                  [] b = "bufV_out" -> bufV_out
                  [] OTHER -> "NULL"

\* ---------------------------------------------------------------- initial state
\* The state at entry to main after argument parsing (lines 36-39): SZ holds
\* the element count, every global handle is null.
InitCommon ==
    /\ pc = "init"
    /\ terminated = FALSE
    /\ exitStatus = 0
    /\ v1 = <<>> /\ v2 = <<>> /\ v_out = <<>>
    /\ buildLog = <<>>
    /\ device_id = "none"
    /\ context = "NULL" /\ program = "NULL" /\ queue = "NULL" /\ kernel = "NULL"
    /\ bufV1 = "NULL" /\ bufV2 = "NULL" /\ bufV_out = "NULL"
    /\ devmem = [b \in {"bufV1", "bufV2", "bufV_out"} |-> <<>>]
    /\ kargs = <<Unset, Unset, Unset, Unset>>
    /\ event = "NULL"
    /\ kernelState = "idle"
    /\ err = 0
    /\ calls = <<>>
    /\ output = <<>>

\* The results an environment call may have: S when the environment may
\* fail, success alone otherwise.
Env(S) == IF faulty THEN S ELSE {CL_SUCCESS}

\* The pipeline run, at most one platform installed (create_device looks at
\* the first platform only): a healthy environment with any element count, or
\* an environment that may fail any call.
Init ==
    /\ InitCommon
    /\ platforms \in SeqsUpTo(1, SUBSET DeviceTypes)
    /\ \/ faulty = FALSE /\ SZ \in 1..MaxSZ
       \/ faulty = TRUE /\ SZ \in 1..MaxFaultSZ

\* Device selection: any installation of up to MaxPlatforms platforms.
InitDevice ==
    /\ InitCommon
    /\ faulty = FALSE
    /\ SZ = 1
    /\ platforms \in SeqsUpTo(MaxPlatforms, SUBSET DeviceTypes)

\* The input preview: any element count from 0 up to MaxPreviewN.
InitPrint ==
    /\ InitCommon
    /\ faulty = FALSE
    /\ platforms = <<>>
    /\ SZ \in 0..MaxPreviewN

\* Groups of variables an action leaves alone.
hostArrays == <<v1, v2, v_out>>
envVars == <<platforms, faulty, buildLog>>
handles == <<context, program, queue, kernel>>
bufs == <<bufV1, bufV2, bufV_out>>
devVars == <<devmem, kargs, event, kernelState>>
procVars == <<terminated, exitStatus>>

\* A printed item: a perror/printf diagnostic, an array preview, the build
\* log or the timing line.
Out(kind, msg, data) == [kind |-> kind, msg |-> msg, data |-> data]

\* Faulty variant: the test has the wrong sign.
Failed_Bug(r) == r > 0

\* if (err < 0): the test each checked call is followed by (166, 176, 183, 215,
\* 223, 245, 256).
Failed(r) == r < 0

\* The handle a creation call returns with result r.
Handle(r) == IF r < 0 THEN "NULL" ELSE "valid"

\* exit(1)
Exit1 ==
    /\ terminated' = TRUE
    /\ exitStatus' = 1
    /\ pc' = "exited"

\* ------------------------------------------------------------- print, 96-116
Tok(x) == [ell |-> FALSE, v |-> x]
Ellipsis == [ell |-> TRUE, v |-> 0]

\* for (long i = lo; i < hi; i++): the values i takes, in order.
Loop(lo, hi) == [k \in 1..(IF hi > lo THEN hi - lo ELSE 0) |-> lo + k - 1]

\* printf("%d ", A[i]) for each i of idx; A[i] of the C array is A[i + 1] here.
Printed(A, idx) == [k \in 1..Len(idx) |-> Tok(A[idx[k] + 1])]

\* Faulty variant: the second loop starts one element late.
TailStart_Bug(size) == size - PreviewEdge + 1

\* long i = size - 5   (106)
TailStart(size) == size - PreviewEdge

\* The source indices print(A, size) reads, in order (0-based).
PreviewIdx(size) ==
    IF size > PreviewThreshold
    THEN Loop(0, PreviewEdge) \o Loop(TailStart(size), size)
    ELSE Loop(0, size)

\* What print(A, size) writes before the separator line.
Preview(A, size) ==
    IF size > PreviewThreshold
    THEN Printed(A, Loop(0, PreviewEdge))
         \o <<Ellipsis>>
         \o Printed(A, Loop(TailStart(size), size))
    ELSE Printed(A, Loop(0, size))

\* -------------------------------------------------------------- main, 41-51
\* init(v1, SZ); init(v2, SZ); init(v_out, SZ)
InitVectors ==
    /\ pc = "init"
    /\ v1' \in Arrays(SZ, Vals)
    /\ v2' \in Arrays(SZ, Vals)
    /\ v_out' \in Arrays(SZ, Vals)
    /\ calls' = calls \o <<Call("malloc", "v1", 0), Call("malloc", "v2", 0),
                           Call("malloc", "v_out", 0)>>
    /\ pc' = "print_in"
    /\ UNCHANGED <<procVars, SZ, envVars, device_id, handles, bufs, devVars,
                   err, output>>

\* init() with sample values whose position can be told from the value:
\* element i holds (i + d) % 100, one of the values rand() % 100 can give.
Ramp(n, d) == [i \in 1..n |-> (i - 1 + d) % RandMod]

InitVectorsRamp ==
    /\ pc = "init"
    /\ \E d1, d2 \in 0..MaxPreviewOff :
          /\ v1' = Ramp(SZ, d1)
          /\ v2' = Ramp(SZ, d2)
    /\ v_out' = Ramp(SZ, 0)
    /\ calls' = calls \o <<Call("malloc", "v1", 0), Call("malloc", "v2", 0),
                           Call("malloc", "v_out", 0)>>
    /\ pc' = "print_in"
    /\ UNCHANGED <<procVars, SZ, envVars, device_id, handles, bufs, devVars,
                   err, output>>

\* print(v1, SZ); print(v2, SZ)
PrintInputs ==
    /\ pc = "print_in"
    /\ output' = output \o <<Out("preview", "v1", Preview(v1, SZ)),
                             Out("preview", "v2", Preview(v2, SZ))>>
    /\ pc' = "get_platform"
    /\ UNCHANGED <<procVars, SZ, hostArrays, envVars, device_id, handles, bufs,
                   devVars, err, calls>>

\* ---------------------------------------------------- create_device, 238-262
\* clGetPlatformIDs(1, &platform, NULL): the first platform, or an error when
\* none is installed.
PlatformResult == IF Len(platforms) >= 1 THEN CL_SUCCESS ELSE -1001

\* clGetDeviceIDs(platform, type, 1, &dev, NULL) on the first platform.
DeviceResult(type) ==
    IF type \in platforms[1] THEN CL_SUCCESS ELSE CL_DEVICE_NOT_FOUND

GetPlatform ==
    /\ pc = "get_platform"
    /\ calls' = Append(calls, Call("clGetPlatformIDs", "platform", PlatformResult))
    /\ IF Failed(PlatformResult)
       THEN /\ output' = Append(output, Out("perror", "Couldn't identify a platform", <<>>))
            /\ Exit1
       ELSE /\ pc' = "get_gpu"
            /\ UNCHANGED <<procVars, output>>
    /\ UNCHANGED <<SZ, hostArrays, envVars, device_id, handles, bufs, devVars, err>>

\* Faulty variant: the general-purpose class is queried first.
FirstChoice_Bug == "CPU"
\* The device type queried first (line 251).
FirstChoice == "GPU"
\* Faulty variant: the fallback queries the accelerator class again.
Fallback_Bug == "GPU"
\* The device type queried when the first query finds no device (line 254).
Fallback == "CPU"

\* Line 251-252 and 256-261 when the first query does not report NOT_FOUND.
GetDeviceGPU ==
    /\ pc = "get_gpu"
    /\ LET r == DeviceResult(FirstChoice) IN
       /\ calls' = Append(calls, Call("clGetDeviceIDs", FirstChoice, r))
       /\ IF r = CL_DEVICE_NOT_FOUND
          THEN /\ pc' = "get_cpu"
               /\ UNCHANGED <<procVars, device_id, output>>
          ELSE IF Failed(r)
          THEN /\ output' = Append(output, Out("perror", "Couldn't access any devices", <<>>))
               /\ Exit1
               /\ UNCHANGED device_id
          ELSE /\ device_id' = FirstChoice
               /\ pc' = "create_context"
               /\ UNCHANGED <<procVars, output>>
    /\ UNCHANGED <<SZ, hostArrays, envVars, handles, bufs, devVars, err>>

\* Line 254 and 256-261.
GetDeviceCPU ==
    /\ pc = "get_cpu"
    /\ LET r == DeviceResult(Fallback) IN
       /\ calls' = Append(calls, Call("clGetDeviceIDs", Fallback, r))
       /\ IF Failed(r)
          THEN /\ output' = Append(output, Out("perror", "Couldn't access any devices", <<>>))
               /\ Exit1
               /\ UNCHANGED device_id
          ELSE /\ device_id' = Fallback
               /\ pc' = "create_context"
               /\ UNCHANGED <<procVars, output>>
    /\ UNCHANGED <<SZ, hostArrays, envVars, handles, bufs, devVars, err>>

\* ------------------------- setup_openCL_device_context_queue_kernel, 160-188
\* clCreateContext, 165-169
CreateContext ==
    /\ pc = "create_context"
    /\ \E r \in Env({CL_SUCCESS} \cup ErrCodes) :
        /\ calls' = Append(calls, Call("clCreateContext", "context", r))
        /\ context' = Handle(r)
        /\ IF Failed(r)
           THEN /\ output' = Append(output, Out("perror", "Couldn't create a context", <<>>))
                /\ Exit1
           ELSE /\ pc' = "fopen"
                /\ UNCHANGED <<procVars, output>>
    /\ UNCHANGED <<SZ, hostArrays, envVars, device_id, program, queue, kernel,
                   bufs, devVars, err>>

\* ----------------------------------------------------- build_program, 191-235
\* fopen and the read of the source text, 198-211
OpenSource ==
    /\ pc = "fopen"
    /\ \E found \in (IF faulty THEN BOOLEAN ELSE {TRUE}) :
        /\ calls' = Append(calls, Call("fopen", "./vector_ops.txt", IF found THEN 0 ELSE -1))
        /\ IF ~found
           THEN /\ output' = Append(output, Out("perror", "Couldn't find the program file", <<>>))
                /\ Exit1
           ELSE /\ pc' = "create_program"
                /\ UNCHANGED <<procVars, output>>
    /\ UNCHANGED <<SZ, hostArrays, envVars, device_id, handles, bufs, devVars, err>>

\* clCreateProgramWithSource, 214-219 (the result goes to the global err)
CreateProgram ==
    /\ pc = "create_program"
    /\ \E r \in Env({CL_SUCCESS} \cup ErrCodes) :
        /\ calls' = Append(calls, Call("clCreateProgramWithSource", "program", r))
        /\ err' = r
        /\ IF Failed(r)
           THEN /\ output' = Append(output, Out("perror", "Couldn't create the program", <<>>))
                /\ Exit1
           ELSE /\ pc' = "build"
                /\ UNCHANGED <<procVars, output>>
    /\ UNCHANGED <<SZ, hostArrays, envVars, device_id, handles, bufs, devVars>>

\* clGetProgramBuildInfo(program, dev, CL_PROGRAM_BUILD_LOG, size, buf, &ret):
\* the log is stored with a terminating NUL.
BuildInfoSize(log) == Len(log) + 1
\* The characters the query copies into a buffer of `cap` bytes; nothing when
\* the buffer is too small (CL_INVALID_VALUE).
BuildInfoCopy(log, cap) == IF cap >= BuildInfoSize(log) THEN log ELSE <<>>

\* Faulty variant: the log is fetched into a buffer without room for the NUL.
PrintedLog_Bug(log) == BuildInfoCopy(log, BuildInfoSize(log) - 1)

\* The build-failure branch, 225-231: what printf("%s\n", program_log) prints.
PrintedLog(log) ==
    LET log_size == BuildInfoSize(log)
    IN  BuildInfoCopy(log, log_size + 1)

\* clBuildProgram and the failure branch, 222-234; on success build_program
\* returns and line 172 stores the program.
BuildProgram ==
    /\ pc = "build"
    /\ \E r \in Env({CL_SUCCESS} \cup ErrCodes), log \in SeqsUpTo(MaxLogLen, {"e"}) :
        /\ r = CL_SUCCESS => log = <<>>
        /\ err' = r
        /\ buildLog' = log
        /\ IF Failed(r)
           THEN /\ calls' = calls \o
                      <<Call("clBuildProgram", "program", r),
                        Call("clGetProgramBuildInfo", "size", 0),
                        Call("clGetProgramBuildInfo", "log", 0)>>
                /\ output' = Append(output, Out("buildlog", "%s", PrintedLog(log)))
                /\ Exit1
                /\ UNCHANGED program
           ELSE /\ calls' = Append(calls, Call("clBuildProgram", "program", r))
                /\ program' = "valid"
                /\ pc' = "create_queue"
                /\ UNCHANGED <<procVars, output>>
    /\ UNCHANGED <<SZ, hostArrays, platforms, faulty, device_id, context, queue,
                   kernel, bufs, devVars>>

\* Faulty variant: the result of the queue creation is not tested.
CreateQueue_Unchecked ==
    /\ pc = "create_queue"
    /\ \E r \in Env({CL_SUCCESS} \cup ErrCodes) :
        /\ calls' = Append(calls, Call("clCreateCommandQueueWithProperties", "queue", r))
        /\ queue' = Handle(r)
        /\ pc' = "create_kernel"
        /\ UNCHANGED <<procVars, output>>
    /\ UNCHANGED <<SZ, hostArrays, envVars, device_id, context, program, kernel,
                   bufs, devVars, err>>

\* ------------------------- setup_openCL_device_context_queue_kernel, 174-187
\* clCreateCommandQueueWithProperties, 175-179
CreateQueue ==
    /\ pc = "create_queue"
    /\ \E r \in Env({CL_SUCCESS} \cup ErrCodes) :
        /\ calls' = Append(calls, Call("clCreateCommandQueueWithProperties", "queue", r))
        /\ queue' = Handle(r)
        /\ IF Failed(r)
           THEN /\ output' = Append(output, Out("perror", "Couldn't create a command queue", <<>>))
                /\ Exit1
           ELSE /\ pc' = "create_kernel"
                /\ UNCHANGED <<procVars, output>>
    /\ UNCHANGED <<SZ, hostArrays, envVars, device_id, context, program, kernel,
                   bufs, devVars, err>>

\* Faulty variant: the failure path releases the context before it exits.
CreateKernel_Cleanup ==
    /\ pc = "create_kernel"
    /\ \E r \in Env({CL_SUCCESS} \cup ErrCodes) :
        /\ kernel' = Handle(r)
        /\ IF Failed(r)
           THEN /\ calls' = calls \o <<Call("clCreateKernel", "vector_add_ocl", r),
                                       Call("clReleaseContext", "context", CL_SUCCESS)>>
                /\ context' = "released"
                /\ output' = output \o <<Out("perror", "Couldn't create a kernel", <<>>),
                                         Out("printf", "Error code = %d", <<r>>)>>
                /\ Exit1
           ELSE /\ calls' = Append(calls, Call("clCreateKernel", "vector_add_ocl", r))
                /\ pc' = "create_buf1"
                /\ UNCHANGED <<procVars, output, context>>
    /\ UNCHANGED <<SZ, hostArrays, envVars, device_id, program, queue,
                   bufs, devVars, err>>

\* clCreateKernel, 182-187
CreateKernel ==
    /\ pc = "create_kernel"
    /\ \E r \in Env({CL_SUCCESS} \cup ErrCodes) :
        /\ calls' = Append(calls, Call("clCreateKernel", "vector_add_ocl", r))
        /\ kernel' = Handle(r)
        /\ IF Failed(r)
           THEN /\ output' = output \o <<Out("perror", "Couldn't create a kernel", <<>>),
                                         Out("printf", "Error code = %d", <<r>>)>>
                /\ Exit1
           ELSE /\ pc' = "create_buf1"
                /\ UNCHANGED <<procVars, output>>
    /\ UNCHANGED <<SZ, hostArrays, envVars, device_id, context, program, queue,
                   bufs, devVars, err>>

\* ----------------------------------------------- setup_kernel_memory, 149-157
\* clCreateBuffer(context, CL_MEM_READ_WRITE, SZ * sizeof(int), NULL, NULL):
\* the handle is NULL on failure; no error code is requested and the result
\* is not tested.
CreateBuf1 ==
    /\ pc = "create_buf1"
    /\ \E r \in Env({CL_SUCCESS} \cup ErrCodes) :
        /\ calls' = Append(calls, Call("clCreateBuffer", "bufV1", r))
        /\ bufV1' = Handle(r)
    /\ pc' = "create_buf2"
    /\ UNCHANGED <<procVars, SZ, hostArrays, envVars, device_id, handles,
                   bufV2, bufV_out, devVars, err, output>>

CreateBuf2 ==
    /\ pc = "create_buf2"
    /\ \E r \in Env({CL_SUCCESS} \cup ErrCodes) :
        /\ calls' = Append(calls, Call("clCreateBuffer", "bufV2", r))
        /\ bufV2' = Handle(r)
    /\ pc' = "create_buf_out"
    /\ UNCHANGED <<procVars, SZ, hostArrays, envVars, device_id, handles,
                   bufV1, bufV_out, devVars, err, output>>

CreateBufOut ==
    /\ pc = "create_buf_out"
    /\ \E r \in Env({CL_SUCCESS} \cup ErrCodes) :
        /\ calls' = Append(calls, Call("clCreateBuffer", "bufV_out", r))
        /\ bufV_out' = Handle(r)
    /\ pc' = "write1"
    /\ UNCHANGED <<procVars, SZ, hostArrays, envVars, device_id, handles,
                   bufV1, bufV2, devVars, err, output>>

\* The results a transfer on the buffer with handle h may have.
TransferOutcomes(h) ==
    IF h = "valid" THEN Env({CL_SUCCESS} \cup ErrCodes) ELSE {CL_INVALID_MEM_OBJECT}

\* The host data each upload sends (&v1[0], line 155; &v2[0], line 156).
UploadSource1 == v1
\* Faulty variant: the second upload sends the first array.
UploadSource2_Bug == v1
UploadSource2 == v2

\* clEnqueueWriteBuffer(queue, bufV1, CL_TRUE, ...): blocking, so the copy has
\* finished (or failed) when the call returns; the result is not tested.
WriteBuf1 ==
    /\ pc = "write1"
    /\ \E r \in TransferOutcomes(bufV1) :
        /\ calls' = Append(calls, Call("clEnqueueWriteBuffer", "bufV1", r))
        /\ devmem' = IF r < 0 THEN devmem ELSE [devmem EXCEPT !["bufV1"] = UploadSource1]
    /\ pc' = "write2"
    /\ UNCHANGED <<procVars, SZ, hostArrays, envVars, device_id, handles, bufs,
                   kargs, event, kernelState, err, output>>

WriteBuf2 ==
    /\ pc = "write2"
    /\ \E r \in TransferOutcomes(bufV2) :
        /\ calls' = Append(calls, Call("clEnqueueWriteBuffer", "bufV2", r))
        /\ devmem' = IF r < 0 THEN devmem ELSE [devmem EXCEPT !["bufV2"] = UploadSource2]
    /\ pc' = "set_args"
    /\ UNCHANGED <<procVars, SZ, hostArrays, envVars, device_id, handles, bufs,
                   kargs, event, kernelState, err, output>>

\* -------------------------------------------------- copy_kernel_args, 135-146
\* a | b on ints (two's complement): ~x = -(x + 1), a | b = ~(~a & ~b); the
\* operands of the recursions are non-negative.
RECURSIVE OrNat(_, _)
OrNat(a, b) ==
    IF a = 0 THEN b
    ELSE IF b = 0 THEN a
    ELSE (IF (a % 2 = 1) \/ (b % 2 = 1) THEN 1 ELSE 0) + 2 * OrNat(a \div 2, b \div 2)

RECURSIVE AndNat(_, _)
AndNat(a, b) ==
    IF a = 0 \/ b = 0 THEN 0
    ELSE (IF (a % 2 = 1) /\ (b % 2 = 1) THEN 1 ELSE 0) + 2 * AndNat(a \div 2, b \div 2)

\* a & ~b
RECURSIVE AndNotNat(_, _)
AndNotNat(a, b) ==
    IF a = 0 THEN 0
    ELSE (IF (a % 2 = 1) /\ (b % 2 = 0) THEN 1 ELSE 0) + 2 * AndNotNat(a \div 2, b \div 2)

BitNot(x) == -(x + 1)

BitOr(a, b) ==
    CASE a >= 0 /\ b >= 0 -> OrNat(a, b)
      [] a < 0 /\ b < 0 -> BitNot(AndNat(BitNot(a), BitNot(b)))
      [] a < 0 /\ b >= 0 -> BitNot(AndNotNat(BitNot(a), b))
      [] a >= 0 /\ b < 0 -> BitNot(AndNotNat(BitNot(b), a))

\* Faulty variant: the last binding assigns err instead of or-ing into it.
ArgErr_Bug(r0, r1, r2, r3) == r3

\* err = r0; err |= r1; err |= r2; err |= r3   (136-139)
ArgErr(r0, r1, r2, r3) == BitOr(BitOr(BitOr(r0, r1), r2), r3)

\* if (err < 0)   (141)
ArgsFailed(e) == e < 0

\* Faulty variant: the second input and the output are bound the wrong way round.
ArgValue_Swapped(k) == CASE k = 0 -> IntArg(SZ)
                         [] k = 1 -> MemArg("bufV1")
                         [] k = 2 -> MemArg("bufV_out")
                         [] k = 3 -> MemArg("bufV2")

\* The values bound at each index (136-139).
ArgValue(k) == CASE k = 0 -> IntArg(SZ)
                 [] k = 1 -> MemArg("bufV1")
                 [] k = 2 -> MemArg("bufV2")
                 [] k = 3 -> MemArg("bufV_out")

ArgName(k) == <<"arg0", "arg1", "arg2", "arg3">>[k + 1]

\* The results clSetKernelArg(kernel, k, ...) may have.
SetArgOutcomes(k) ==
    Env({CL_SUCCESS, IF k = 0 THEN CL_INVALID_ARG_SIZE ELSE CL_INVALID_MEM_OBJECT})

copy_kernel_args ==
    /\ pc = "set_args"
    /\ \E r0 \in SetArgOutcomes(0), r1 \in SetArgOutcomes(1),
          r2 \in SetArgOutcomes(2), r3 \in SetArgOutcomes(3) :
        LET r == <<r0, r1, r2, r3>>
            e == ArgErr(r0, r1, r2, r3)
        IN  /\ calls' = calls \o [k \in 1..4 |-> Call("clSetKernelArg", ArgName(k - 1), r[k])]
            /\ kargs' = [k \in 1..4 |-> IF r[k] < 0 THEN kargs[k] ELSE ArgValue(k - 1)]
            /\ err' = e
            /\ IF ArgsFailed(e)
               THEN /\ output' = output \o
                          <<Out("perror", "Couldn't create a kernel argument", <<>>),
                            Out("printf", "Error code = %d", <<e>>)>>
                    /\ Exit1
               ELSE /\ pc' = "timer_start"
                    /\ UNCHANGED <<procVars, output>>
    /\ UNCHANGED <<SZ, hostArrays, envVars, device_id, handles, bufs, devmem,
                   event, kernelState>>

\* -------------------------------------------------------------- main, 62-84
\* auto start = high_resolution_clock::now()   (63)
TimerStart ==
    /\ pc = "timer_start"
    /\ calls' = Append(calls, Call("now", "start", 0))
    /\ pc' = "enqueue"
    /\ UNCHANGED <<procVars, SZ, hostArrays, envVars, device_id, handles, bufs,
                   devVars, err, output>>

\* A kernel whose argument list is not fully bound cannot be submitted.
EnqueueOutcomes ==
    IF \A k \in 1..4 : kargs[k] # Unset
    THEN Env({CL_SUCCESS} \cup ErrCodes)
    ELSE {CL_INVALID_KERNEL_ARGS}

\* clEnqueueNDRangeKernel(queue, kernel, 1, NULL, global, NULL, 0, NULL, &event)
\* (66): on success the kernel is submitted and event is set; the result is
\* not tested.
EnqueueKernel ==
    /\ pc = "enqueue"
    /\ \E r \in EnqueueOutcomes :
        /\ calls' = Append(calls, Call("clEnqueueNDRangeKernel", "kernel", r))
        /\ IF r < 0
           THEN UNCHANGED <<event, kernelState>>
           ELSE /\ event' = "valid"
                /\ kernelState' = "queued"
    /\ pc' = "wait"
    /\ UNCHANGED <<procVars, SZ, hostArrays, envVars, device_id, handles, bufs,
                   devmem, kargs, err, output>>

\* Faulty variant: the wait returns without blocking.
WaitReturns_Bug == TRUE

\* Faulty variant: the completion signal is lost; only the error case returns.
WaitReturns_Lost == event = "NULL"

\* clWaitForEvents(1, &event) returns when the event's command has completed;
\* with event == NULL it returns CL_INVALID_EVENT at once.
WaitReturns == event = "NULL" \/ kernelState = "complete"

\* Faulty variant: the wait is left out and the download follows the enqueue.
WaitForEvents_Missing ==
    /\ pc = "wait"
    /\ pc' = "read"
    /\ UNCHANGED <<procVars, SZ, hostArrays, envVars, device_id, handles, bufs,
                   devVars, err, calls, output>>

\* clWaitForEvents(1, &event)   (67); the result is not tested.
WaitForEvents ==
    /\ pc = "wait"
    /\ WaitReturns
    /\ calls' = Append(calls, Call("clWaitForEvents", "event",
                                   IF event = "NULL" THEN CL_INVALID_EVENT ELSE CL_SUCCESS))
    /\ pc' = "read"
    /\ UNCHANGED <<procVars, SZ, hostArrays, envVars, device_id, handles, bufs,
                   devVars, err, output>>

\* An indeterminate array of n ints (uninitialised device memory): every cell
\* holds some value; the arrays with one value in all cells are drawn.
Indeterminate(n) == {[i \in 1..n |-> g] : g \in OutVals}

\* The buffer the download reads (bufV_out, line 70).
DownloadSource == "bufV_out"

\* clEnqueueReadBuffer(queue, bufV_out, CL_TRUE, 0, SZ * sizeof(int), &v_out[0],
\* ...)   (70): blocking; the queue is in order, so the copy runs after every
\* command submitted before it.  The result is not tested.
ReadBuffer ==
    /\ pc = "read"
    /\ kernelState # "queued"
    /\ \E r \in TransferOutcomes(BufHandle(DownloadSource)) :
        /\ calls' = Append(calls, Call("clEnqueueReadBuffer", DownloadSource, r))
        /\ IF r < 0
           THEN UNCHANGED v_out
           ELSE IF devmem[DownloadSource] # <<>>
           THEN v_out' = devmem[DownloadSource]
           ELSE v_out' \in Indeterminate(SZ)
    /\ pc' = "print_out"
    /\ UNCHANGED <<procVars, SZ, v1, v2, envVars, device_id, handles, bufs,
                   devVars, err, output>>

\* print(v_out, SZ)   (73)
PrintOutput ==
    /\ pc = "print_out"
    /\ output' = Append(output, Out("preview", "v_out", Preview(v_out, SZ)))
    /\ pc' = "timer_stop"
    /\ UNCHANGED <<procVars, SZ, hostArrays, envVars, device_id, handles, bufs,
                   devVars, err, calls>>

\* auto stop = high_resolution_clock::now()   (76-77)
TimerStop ==
    /\ pc = "timer_stop"
    /\ calls' = Append(calls, Call("now", "stop", 0))
    /\ pc' = "report"
    /\ UNCHANGED <<procVars, SZ, hostArrays, envVars, device_id, handles, bufs,
                   devVars, err, output>>

\* printf("Kernel Execution Time: %f ms\n", ...)   (80)
ReportTime ==
    /\ pc = "report"
    /\ output' = Append(output, Out("printf", "Kernel Execution Time: %f ms", <<>>))
    /\ pc' = "free"
    /\ UNCHANGED <<procVars, SZ, hostArrays, envVars, device_id, handles, bufs,
                   devVars, err, calls>>

\* ------------------------------------------------------- free_memory, 119-132
\* A release call on handle h: an error on a handle that is not a live object.
ReleaseResult(h) == IF h = "valid" THEN CL_SUCCESS ELSE CL_INVALID_MEM_OBJECT
Released(h) == IF h = "valid" THEN "released" ELSE h

\* Faulty variant: bufV1 is released twice and bufV2 never.
free_memory_Twice ==
    /\ pc = "free"
    /\ calls' = calls \o
          <<Call("clReleaseMemObject", "bufV1", ReleaseResult(bufV1)),
            Call("clReleaseMemObject", "bufV1", ReleaseResult(Released(bufV1))),
            Call("clReleaseMemObject", "bufV_out", ReleaseResult(bufV_out)),
            Call("clReleaseKernel", "kernel", ReleaseResult(kernel)),
            Call("clReleaseCommandQueue", "queue", ReleaseResult(queue)),
            Call("clReleaseProgram", "program", ReleaseResult(program)),
            Call("clReleaseContext", "context", ReleaseResult(context)),
            Call("free", "v1", 0), Call("free", "v2", 0), Call("free", "v_out", 0)>>
    /\ bufV1' = Released(bufV1)
    /\ bufV_out' = Released(bufV_out)
    /\ kernel' = Released(kernel)
    /\ queue' = Released(queue)
    /\ program' = Released(program)
    /\ context' = Released(context)
    /\ pc' = "return"
    /\ UNCHANGED <<procVars, SZ, hostArrays, envVars, device_id, devVars, err,
                   output, bufV2>>

free_memory ==
    /\ pc = "free"
    /\ calls' = calls \o
          <<Call("clReleaseMemObject", "bufV1", ReleaseResult(bufV1)),
            Call("clReleaseMemObject", "bufV2", ReleaseResult(bufV2)),
            Call("clReleaseMemObject", "bufV_out", ReleaseResult(bufV_out)),
            Call("clReleaseKernel", "kernel", ReleaseResult(kernel)),
            Call("clReleaseCommandQueue", "queue", ReleaseResult(queue)),
            Call("clReleaseProgram", "program", ReleaseResult(program)),
            Call("clReleaseContext", "context", ReleaseResult(context)),
            Call("free", "v1", 0), Call("free", "v2", 0), Call("free", "v_out", 0)>>
    /\ bufV1' = Released(bufV1)
    /\ bufV2' = Released(bufV2)
    /\ bufV_out' = Released(bufV_out)
    /\ kernel' = Released(kernel)
    /\ queue' = Released(queue)
    /\ program' = Released(program)
    /\ context' = Released(context)
    /\ pc' = "return"
    /\ UNCHANGED <<procVars, SZ, hostArrays, envVars, device_id, devVars, err, output>>

\* main falls off its end (84): the process ends with status 0.
MainReturn ==
    /\ pc = "return"
    /\ terminated' = TRUE
    /\ exitStatus' = 0
    /\ pc' = "done"
    /\ UNCHANGED <<SZ, hostArrays, envVars, device_id, handles, bufs, devVars,
                   err, calls, output>>

\* ------------------------------------------------------------------- device
\* The kernel vector_add_ocl of ./vector_ops.txt, one work item: the element
\* of the output at global id i (the operands lie in 0..RandMod-1, so the sum
\* does not overflow an int).
VectorAddItem(A, B, i) == A[i] + B[i]

\* The contents the buffer bound at argument index k presents to the kernel:
\* <<>> when the argument is a NULL handle or the buffer was never written.
ArgContents(k) ==
    LET a == kargs[k + 1]
    IN  IF a.tag = "mem" /\ BufHandle(a.buf) = "valid" THEN devmem[a.buf] ELSE <<>>

\* size_t global[1] = {(size_t)SZ}   (47): the dispatch extent.
GlobalSize == SZ

\* The device executes the submitted kernel over the work domain global[0] = SZ
\* (47, 66) and signals the event.  Reading a NULL or unwritten buffer yields
\* indeterminate values; a NULL output argument receives nothing.
KernelRun ==
    /\ kernelState = "queued"
    /\ ~terminated
    /\ LET A == ArgContents(1)
           B == ArgContents(2)
           o == kargs[4]
       IN  IF o.tag = "mem" /\ BufHandle(o.buf) = "valid"
           THEN IF A # <<>> /\ B # <<>>
                THEN devmem' = [devmem EXCEPT ![o.buf] =
                                   [i \in 1..GlobalSize |-> VectorAddItem(A, B, i)]]
                ELSE \E g \in Indeterminate(GlobalSize) :
                        devmem' = [devmem EXCEPT ![o.buf] = g]
           ELSE UNCHANGED devmem
    /\ kernelState' = "complete"
    /\ UNCHANGED <<pc, procVars, SZ, hostArrays, envVars, device_id, handles, bufs,
                   kargs, event, err, calls, output>>

\* ------------------------------------------------------------ specification
Next ==
    \/ InitVectors \/ PrintInputs
    \/ GetPlatform \/ GetDeviceGPU \/ GetDeviceCPU
    \/ CreateContext \/ OpenSource \/ CreateProgram \/ BuildProgram
    \/ CreateQueue \/ CreateKernel
    \/ CreateBuf1 \/ CreateBuf2 \/ CreateBufOut \/ WriteBuf1 \/ WriteBuf2
    \/ copy_kernel_args
    \/ TimerStart \/ EnqueueKernel \/ WaitForEvents \/ ReadBuffer
    \/ PrintOutput \/ TimerStop \/ ReportTime \/ free_memory \/ MainReturn
    \/ KernelRun

Spec == Init /\ [][Next]_vars

SpecDevice == InitDevice /\ [][Next]_vars

\* The steps of main after the enqueue (67-84): the host thread is not
\* descheduled for ever, and its blocking calls return once they can. The
\* device runs a submitted kernel to completion.
HostStep ==
    \/ WaitForEvents \/ ReadBuffer
    \/ PrintOutput \/ TimerStop \/ ReportTime \/ free_memory \/ MainReturn

FairSpec == Init /\ [][Next]_vars /\ WF_vars(HostStep) /\ WF_vars(KernelRun)

\* ================================================================== claims
\* Positions of the history.
CallIdx == 1..Len(calls)
Made(op) == \E i \in CallIdx : calls[i].op = op
\* No external call of the run has returned an error.
\* (A GPU query that finds no device is not an error: the CPU query follows.)
BenignAt(i) == calls[i] = Call("clGetDeviceIDs", "GPU", CL_DEVICE_NOT_FOUND)
NoFailedCall == \A i \in CallIdx : calls[i].ret >= 0 \/ BenignAt(i)
\* The host is past the download of line 70.
AfterDownload == pc \in {"print_out", "timer_stop", "report", "free", "return", "done"}
\* create_device has returned.
AfterSelection == pc \notin {"init", "print_in", "get_platform", "get_gpu", "get_cpu", "exited"}
                  \/ (pc = "exited" /\ Made("clCreateContext"))
\* create_device has ended the process.
PlatformNotFound ==
    \E k \in 1..Len(output) : output[k].msg = "Couldn't identify a platform"
DeviceNotFound ==
    \E k \in 1..Len(output) : output[k].msg = "Couldn't access any devices"
Diagnosed == \E k \in 1..Len(output) : output[k].kind \in {"perror", "buildlog"}

\* C1: in a run in which every stage succeeds, once the download has returned
\* (and so at the end of the run) the host output array holds
\* v_out[i] = v1[i] + v2[i] at every index i of 0..SZ-1.
C1_OutputIsSum ==
    (AfterDownload /\ NoFailedCall) =>
        /\ Len(v_out) = SZ
        /\ \A i \in 1..SZ : v_out[i] = v1[i] + v2[i]

C1_Witness ==
    /\ pc = "done" /\ exitStatus = 0 /\ NoFailedCall
    /\ SZ = 2 /\ v1 = <<0, RandMod - 1>> /\ v2 = <<RandMod - 1, RandMod - 1>>
    /\ v_out = <<RandMod - 1, 2 * (RandMod - 1)>>

\* C2 (as stated): device selection does not fail when at least one installed
\* platform exposes a GPU or a CPU device, and it fails with DeviceNotFound
\* only when no platform exposes either.
AnyPlatformHasDevice == \E p \in 1..Len(platforms) : platforms[p] # {}
C2_AnyPlatform ==
    /\ AnyPlatformHasDevice => ~(PlatformNotFound \/ DeviceNotFound)
    /\ DeviceNotFound => ~AnyPlatformHasDevice

\* C2 (amended): device selection does not fail, and returns a device of the
\* first platform, when the first platform exposes a GPU or a CPU device; it
\* fails with DeviceNotFound only when the first platform exposes neither.
FirstPlatformHasDevice == Len(platforms) >= 1 /\ platforms[1] # {}
C2_FirstPlatform ==
    /\ FirstPlatformHasDevice => ~(PlatformNotFound \/ DeviceNotFound)
    /\ (FirstPlatformHasDevice /\ pc \notin {"init", "print_in", "get_platform", "get_gpu", "get_cpu"})
            => device_id \in platforms[1]
    /\ DeviceNotFound => (Len(platforms) >= 1 /\ platforms[1] = {})

C2_Witness ==
    /\ Len(platforms) = 2 /\ platforms[1] = {"CPU"} /\ platforms[2] = {}
    /\ device_id = "CPU" /\ pc = "create_context"

\* C3: if any clSetKernelArg call of the run has failed, whatever the other
\* three returned, the process has terminated with status 1 and the kernel
\* was never submitted: no clEnqueueNDRangeKernel call was made.
ArgBindingFailed ==
    \E i \in CallIdx : calls[i].op = "clSetKernelArg" /\ calls[i].ret < 0
C3_BindingAtomic ==
    ArgBindingFailed =>
        /\ terminated /\ exitStatus = 1
        /\ ~Made("clEnqueueNDRangeKernel")
        /\ kernelState = "idle"

C3_Witness ==
    /\ terminated
    /\ \E i \in CallIdx : calls[i] = Call("clSetKernelArg", "arg2", CL_INVALID_MEM_OBJECT)
    /\ \A i \in CallIdx :
          (calls[i].op = "clSetKernelArg" /\ calls[i].obj # "arg2") => calls[i].ret = 0

Upload(b) == \E i \in CallIdx : calls[i] = Call("clEnqueueWriteBuffer", b, CL_SUCCESS)
C5_UploadsCompleteBeforeDispatch ==
    kernelState # "idle" =>
        /\ Upload("bufV1") /\ devmem["bufV1"] = v1
        /\ Upload("bufV2") /\ devmem["bufV2"] = v2

\* C6 (as stated): a failed buffer creation, upload or download is the last
\* call of the run: the process has printed a diagnostic and terminated with
\* a nonzero status, and no later stage has run.
BufferOps == {"clCreateBuffer", "clEnqueueWriteBuffer", "clEnqueueReadBuffer"}
C6_BufferFailureFatal ==
    \A i \in CallIdx :
        (calls[i].op \in BufferOps /\ calls[i].ret < 0) =>
            /\ i = Len(calls)
            /\ terminated /\ exitStatus # 0
            /\ Diagnosed

\* C7 (as stated): a failed clEnqueueNDRangeKernel is the last call of the
\* run and the process has terminated with a nonzero status (no wait, no
\* download, no timing report); a run ends with status 0 only when the kernel
\* was enqueued and has completed.
C7_EnqueueFailureFatal ==
    /\ \A i \in CallIdx :
          (calls[i].op = "clEnqueueNDRangeKernel" /\ calls[i].ret < 0) =>
              /\ i = Len(calls)
              /\ terminated /\ exitStatus # 0
    /\ (terminated /\ exitStatus = 0) => kernelState = "complete"

\* C8: when clBuildProgram has failed, the build log has been retrieved (size
\* query, then contents) and printed in full as the last output, the process
\* has terminated with status 1, nothing was called after the retrieval, and
\* no kernel, command queue or buffer exists and nothing was enqueued.
BuildFailedAt(i) == calls[i].op = "clBuildProgram" /\ calls[i].ret < 0
C8_CompileFailure ==
    \A i \in CallIdx :
        BuildFailedAt(i) =>
            /\ Len(calls) = i + 2
            /\ calls[i + 1] = Call("clGetProgramBuildInfo", "size", 0)
            /\ calls[i + 2] = Call("clGetProgramBuildInfo", "log", 0)
            /\ Len(output) >= 1
            /\ output[Len(output)] = Out("buildlog", "%s", buildLog)
            /\ terminated /\ exitStatus = 1
            /\ kernel = "NULL" /\ queue = "NULL"
            /\ bufV1 = "NULL" /\ bufV2 = "NULL" /\ bufV_out = "NULL"
            /\ kernelState = "idle"

C8_Witness ==
    /\ \E i \in CallIdx : BuildFailedAt(i)
    /\ Len(buildLog) = MaxLogLen
    /\ terminated

\* C9: a failed setup stage (no platform, no device, context, queue, source
\* file, kernel entry) is the last call of the run: the process has printed a
\* perror diagnostic and terminated with status 1, so no later stage ran.
\* (A GPU query that finds no device is not a failure: the CPU query follows.)
SetupFailureAt(i) ==
    /\ calls[i].ret < 0
    /\ \/ calls[i].op \in {"clGetPlatformIDs", "clCreateContext",
                           "clCreateCommandQueueWithProperties", "fopen", "clCreateKernel"}
       \/ calls[i].op = "clGetDeviceIDs" /\ calls[i].obj = "CPU"
C9_SetupFailureFatal ==
    \A i \in CallIdx :
        SetupFailureAt(i) =>
            /\ i = Len(calls)
            /\ terminated /\ exitStatus = 1
            /\ \E k \in 1..Len(output) : output[k].kind = "perror"
            /\ kernelState = "idle"

C9_Witness ==
    /\ terminated
    /\ calls[Len(calls)] = Call("clCreateCommandQueueWithProperties", "queue", -5)
    /\ program = "valid" /\ queue = "NULL"

\* C10: within the first platform the selected device is the GPU whenever
\* the platform has one, the CPU only when it has a CPU and no GPU, and the
\* selection fails with DeviceNotFound only when it has neither.
C10_AcceleratorFirst ==
    /\ (AfterSelection /\ "GPU" \in platforms[1]) => device_id = "GPU"
    /\ device_id = "CPU" => ("GPU" \notin platforms[1] /\ "CPU" \in platforms[1])
    /\ AfterSelection => device_id \in platforms[1]
    /\ DeviceNotFound => platforms[1] = {}

C10_Witness ==
    /\ Len(platforms) = 2 /\ platforms[1] = {"GPU", "CPU"} /\ platforms[2] = {"CPU"}
    /\ device_id = "GPU" /\ pc = "create_context"

\* Positions of a call in the history.
IdxOf(op, obj) == {i \in CallIdx : calls[i].op = op /\ calls[i].obj = obj}
OpIdx(op) == {i \in CallIdx : calls[i].op = op}
PreviewPrinted(name) ==
    \E k \in 1..Len(output) : output[k].kind = "preview" /\ output[k].msg = name

\* C11 (as stated): the start timestamp is taken immediately before the
\* enqueue; the stop timestamp is taken right after the completion wait has
\* returned, before the output download is issued and before the output is
\* printed, so that no transfer lies between the two timestamps.
C11_TimedInterval ==
    /\ \A i \in CallIdx :
          calls[i].op = "clEnqueueNDRangeKernel" => calls[i - 1] = Call("now", "start", 0)
    /\ \A i \in IdxOf("now", "stop") :
          /\ calls[i - 1].op = "clWaitForEvents"
          /\ \A j \in OpIdx("clEnqueueReadBuffer") : i < j
    /\ pc = "timer_stop" => ~PreviewPrinted("v_out")

\* A successful run: main has returned 0 and no stage has failed.
SuccessfulRun == pc = "done" /\ exitStatus = 0 /\ NoFailedCall
ReportPrinted ==
    \E k \in 1..Len(output) : output[k].msg = "Kernel Execution Time: %f ms"
\* Every call of a was made before every call of b, and both were made.
Before(a, b) ==
    /\ OpIdx(a) # {} /\ OpIdx(b) # {}
    /\ \A i \in OpIdx(a), j \in OpIdx(b) : i < j
Chain(ops) == \A k \in 1..(Len(ops) - 1) : Before(ops[k], ops[k + 1])
\* The stages from buffer allocation to release, in pipeline order.
LateStages ==
    <<"clCreateBuffer", "clEnqueueWriteBuffer", "clSetKernelArg",
      "clEnqueueNDRangeKernel", "clWaitForEvents", "clEnqueueReadBuffer",
      "clReleaseMemObject", "clReleaseKernel", "clReleaseCommandQueue",
      "clReleaseProgram", "clReleaseContext", "free">>
\* The elapsed-time report comes after the download and before any release.
ReportPlaced ==
    /\ ReportPrinted => Made("clEnqueueReadBuffer")
    /\ Made("clReleaseMemObject") => ReportPrinted

\* C12 (as stated): in a successful run the stages occur in the order device
\* selection, context and command queue, program build and kernel extraction,
\* buffers and uploads, argument binding and enqueue, wait, download, report,
\* release; the command queue is created before the program build starts.
C12_QueueBeforeBuild ==
    /\ SuccessfulRun =>
          Chain(<<"clGetPlatformIDs", "clGetDeviceIDs", "clCreateContext",
                  "clCreateCommandQueueWithProperties",
                  "fopen", "clCreateProgramWithSource", "clBuildProgram",
                  "clCreateKernel">> \o LateStages)
    /\ ReportPlaced

\* C12 (amended): the same order, except that the command queue is created
\* after the program build and before the kernel is extracted.
C12_StageOrder ==
    /\ SuccessfulRun =>
          Chain(<<"clGetPlatformIDs", "clGetDeviceIDs", "clCreateContext",
                  "fopen", "clCreateProgramWithSource", "clBuildProgram",
                  "clCreateCommandQueueWithProperties",
                  "clCreateKernel">> \o LateStages)
    /\ ReportPlaced

C12_Witness ==
    /\ SuccessfulRun /\ device_id = "CPU" /\ SZ = 2
    /\ ReportPrinted /\ queue = "released"

\* The release operations and the resources they are applied to.
ReleaseOps ==
    {"clReleaseMemObject", "clReleaseKernel", "clReleaseCommandQueue",
     "clReleaseProgram", "clReleaseContext", "free"}
Resources ==
    {<<"clReleaseMemObject", "bufV1">>, <<"clReleaseMemObject", "bufV2">>,
     <<"clReleaseMemObject", "bufV_out">>, <<"clReleaseKernel", "kernel">>,
     <<"clReleaseCommandQueue", "queue">>, <<"clReleaseProgram", "program">>,
     <<"clReleaseContext", "context">>,
     <<"free", "v1">>, <<"free", "v2">>, <<"free", "v_out">>}
ReleaseIdx == {i \in CallIdx : calls[i].op \in ReleaseOps}
\* Every stage before the release has succeeded.
StagesSucceeded ==
    \A i \in CallIdx \ ReleaseIdx : calls[i].ret >= 0 \/ BenignAt(i)
Completed == pc = "done" /\ exitStatus = 0 /\ StagesSucceeded

\* C13: in every successful run each of the three buffers, the kernel, the
\* queue, the program, the context and the three host arrays is released
\* exactly once (and the release succeeds), every release comes after the
\* completed download, and nothing but further releases and the return of main
\* follows the first release, so no resource is used after its release.
C13_ReleasedOnce ==
    /\ Completed =>
          /\ \A r \in Resources :
                /\ Cardinality(IdxOf(r[1], r[2])) = 1
                /\ \A i \in IdxOf(r[1], r[2]) :
                      /\ calls[i].ret = CL_SUCCESS
                      /\ \E j \in OpIdx("clEnqueueReadBuffer") :
                            j < i /\ calls[j].ret = CL_SUCCESS
          /\ Cardinality(ReleaseIdx) = Cardinality(Resources)
          /\ \A i \in ReleaseIdx, j \in CallIdx : i < j => j \in ReleaseIdx
    /\ ReleaseIdx # {} => pc \in {"return", "done"} /\ PreviewPrinted("v_out")

C13_Witness ==
    /\ Completed /\ SZ = 2
    /\ bufV1 = "released" /\ bufV2 = "released" /\ bufV_out = "released"
    /\ kernel = "released" /\ queue = "released"
    /\ program = "released" /\ context = "released"

\* The device-side operations: both uploads, the kernel launch, the download.
DeviceOps == {"clEnqueueWriteBuffer", "clEnqueueNDRangeKernel", "clEnqueueReadBuffer"}
DeviceOpIdx == {i \in CallIdx : calls[i].op \in DeviceOps}
\* Successful creations of an object kind in the history.
CreatedIdx(op) == {i \in OpIdx(op) : calls[i].ret >= 0}
\* The host is about to submit a device-side operation through `queue`.
AtDeviceOp == pc \in {"write1", "write2", "enqueue", "read"}
\* Every device-side operation goes through the one queue of the run: the
\* queue was created once before it and has not been released.
ThroughSingleQueue ==
    /\ AtDeviceOp => queue = "valid"
    /\ \A i \in DeviceOpIdx :
          /\ \E j \in CreatedIdx("clCreateCommandQueueWithProperties") : j < i
          /\ \A j \in OpIdx("clReleaseCommandQueue") : i < j
\* Submitted operations are totally ordered: the transfers block, so each has
\* returned before the next is submitted, and the uploads precede the launch,
\* which precedes the download.
OneSubmissionOrder ==
    \A i, j \in DeviceOpIdx :
        (i < j) =>
            /\ calls[i].op # "clEnqueueReadBuffer"
            /\ calls[j].op = "clEnqueueWriteBuffer" => calls[i].op = "clEnqueueWriteBuffer"

\* C14 (as stated): every run creates at most one context and exactly one
\* command queue, and every device-side operation is submitted through that
\* single queue.
C14_ExactlyOneQueue ==
    /\ Cardinality(CreatedIdx("clCreateContext")) <= 1
    /\ terminated => Cardinality(CreatedIdx("clCreateCommandQueueWithProperties")) = 1
    /\ ThroughSingleQueue
    /\ OneSubmissionOrder

\* C14 (amended): every run creates at most one context and at most one command
\* queue; a run that submits a device-side operation has created exactly one of
\* each, and every device-side operation is submitted through that queue.
C14_SingleQueue ==
    /\ Cardinality(OpIdx("clCreateContext")) <= 1
    /\ Cardinality(OpIdx("clCreateCommandQueueWithProperties")) <= 1
    /\ (AtDeviceOp \/ DeviceOpIdx # {}) =>
          /\ Cardinality(CreatedIdx("clCreateContext")) = 1
          /\ Cardinality(CreatedIdx("clCreateCommandQueueWithProperties")) = 1
    /\ ThroughSingleQueue
    /\ OneSubmissionOrder

C14_Witness ==
    /\ pc = "print_out" /\ queue = "valid" /\ context = "valid"
    /\ Cardinality(DeviceOpIdx) = 4
    /\ Cardinality(OpIdx("clCreateCommandQueueWithProperties")) = 1

\* The start of main up to the input preview, for element counts on both
\* sides of the preview threshold.
NextPrint == InitVectorsRamp \/ PrintInputs
SpecPrint == InitPrint /\ [][NextPrint]_vars

\* The array a preview item was printed from.
ArrayOf(name) == CASE name = "v1" -> v1 [] name = "v2" -> v2 [] OTHER -> v_out

\* C15: the preview of an array of length N is exactly the first 5 values, the
\* ellipsis marker and the last 5 values when N > 15, and all N values in index
\* order otherwise; no index outside [0, N) is read.
C15_PreviewShape ==
    /\ \A n \in 1..Len(output) :
          output[n].kind = "preview" =>
             LET A == ArrayOf(output[n].msg)
                 P == output[n].data
             IN  IF SZ > 15
                 THEN /\ Len(P) = 11
                      /\ \A k \in 1..5 : P[k] = Tok(A[k])
                      /\ P[6] = Ellipsis
                      /\ \A k \in 1..5 : P[6 + k] = Tok(A[SZ - 5 + k])
                 ELSE /\ Len(P) = SZ
                      /\ \A k \in 1..SZ : P[k] = Tok(A[k])
    /\ \A k \in 1..Len(PreviewIdx(SZ)) : PreviewIdx(SZ)[k] \in 0..(SZ - 1)

C15_Witness ==
    /\ SZ = 20 /\ pc = "get_platform"
    /\ Len(output) = 2 /\ output[1].msg = "v1"
    /\ output[1].data[6] = Ellipsis
    /\ output[1].data[11] = Tok(v1[20])

\* A successful call of op (on obj) was made before position i of the history.
DoneBefore(op, i) == \E j \in OpIdx(op) : j < i /\ calls[j].ret >= 0
DoneOnBefore(op, obj, i) == \E j \in IdxOf(op, obj) : j < i /\ calls[j].ret >= 0
Buffers == {"bufV1", "bufV2", "bufV_out"}

\* C16 (as stated): no resource is created or used before the resources it
\* depends on exist: the context only after a device is selected, the program
\* and the queue only after the context, the kernel only after a successful
\* build, the buffers only after the context and the build, each upload only
\* after its buffer and the queue, argument binding only after the kernel and
\* all three buffers, the enqueue only after all four arguments are bound.
C16_DependenciesExist ==
    \A i \in CallIdx :
        LET op == calls[i].op
        IN  /\ op = "clCreateContext" => DoneBefore("clGetDeviceIDs", i)
            /\ op \in {"clCreateProgramWithSource", "clCreateCommandQueueWithProperties"}
                  => DoneBefore("clCreateContext", i)
            /\ op = "clCreateKernel" => DoneBefore("clBuildProgram", i)
            /\ op = "clCreateBuffer" =>
                  DoneBefore("clCreateContext", i) /\ DoneBefore("clBuildProgram", i)
            /\ op = "clEnqueueWriteBuffer" =>
                  /\ DoneOnBefore("clCreateBuffer", calls[i].obj, i)
                  /\ DoneBefore("clCreateCommandQueueWithProperties", i)
            /\ op = "clSetKernelArg" =>
                  /\ DoneBefore("clCreateKernel", i)
                  /\ \A b \in Buffers : DoneOnBefore("clCreateBuffer", b, i)
            /\ op = "clEnqueueNDRangeKernel" =>
                  \A k \in 0..3 : DoneOnBefore("clSetKernelArg", ArgName(k), i)

\* The kernel has been submitted and the device has not signalled completion.
Outstanding == kernelState = "queued"
\* The run has downloaded the output, released its resources and returned.
RanToEnd ==
    /\ pc = "done" /\ terminated
    /\ Made("clEnqueueReadBuffer")
    /\ ReleaseIdx # {}

\* C17: once the kernel is enqueued the host has no timeout and no
\* cancellation: as long as the device has not signalled completion the host
\* stays in the wait, with no download, no report and no exit; and when the
\* device does signal completion (device fairness) the run goes on to the
\* download, the release of its resources and termination.
C17_WaitsForCompletion ==
    /\ [][Outstanding =>
             /\ pc = "wait" /\ pc' = "wait"
             /\ ~terminated /\ ~terminated'
             /\ calls' = calls /\ output' = output]_vars
    /\ [](Outstanding => ~Made("clEnqueueReadBuffer") /\ ~ReportPrinted)
    /\ Outstanding ~> RanToEnd

C17_Witness ==
    /\ RanToEnd /\ kernelState = "complete" /\ event = "valid"
    /\ \E i \in CallIdx : calls[i] = Call("clWaitForEvents", "event", CL_SUCCESS)

\* The host has reached the enqueue of line 66 or has made it.
AtOrPastEnqueue == pc = "enqueue" \/ Made("clEnqueueNDRangeKernel")
\* The element count bound at index 0.
BoundN == kargs[1].n

\* C18: whenever the kernel is enqueued all four arguments are bound, in the
\* declared order (0: the element count N, 1: the first input buffer, 2: the
\* second input buffer, 3: the output buffer), and the same N is the dispatch
\* extent, the length of the host arrays, of every written buffer and of the
\* download.
C18_ArgsInOrder ==
    AtOrPastEnqueue =>
        /\ \A k \in 1..4 : kargs[k] # Unset
        /\ kargs[1] = IntArg(SZ)
        /\ kargs[2] = MemArg("bufV1")
        /\ kargs[3] = MemArg("bufV2")
        /\ kargs[4] = MemArg("bufV_out")
        /\ GlobalSize = BoundN
        /\ Len(v1) = BoundN /\ Len(v2) = BoundN /\ Len(v_out) = BoundN
        /\ \A b \in Buffers : devmem[b] # <<>> => Len(devmem[b]) = BoundN
        /\ \A n \in 1..Len(output) :
              (output[n].kind = "preview" /\ output[n].msg = "v_out")
                 => Len(output[n].data) = BoundN

C18_Witness ==
    /\ kernelState = "complete" /\ pc = "timer_stop" /\ SZ = 2
    /\ kargs = <<IntArg(2), MemArg("bufV1"), MemArg("bufV2"), MemArg("bufV_out")>>
    /\ Len(devmem["bufV_out"]) = 2
    /\ calls[Len(calls)] = Call("clEnqueueReadBuffer", "bufV_out", CL_SUCCESS)

\* The process has ended through exit(1).
FatalExit == pc = "exited"
AllHandles == <<context, program, queue, kernel, bufV1, bufV2, bufV_out>>
NothingReleased ==
    /\ ReleaseIdx = {}
    /\ \A k \in 1..Len(AllHandles) : AllHandles[k] # "released"
\* free_memory has been reached (83) or has run.
AtOrPastRelease == pc \in {"free", "return", "done"}

\* C19: release happens only on the success path: free_memory is reached only
\* after the download and the timing report, and a run that ends through
\* exit(1) has performed no release on any buffer, the kernel, the queue, the
\* program, the context or a host array.
C19_ReleaseOnlyOnSuccessPath ==
    /\ AtOrPastRelease => Made("clEnqueueReadBuffer") /\ ReportPrinted
    /\ ~AtOrPastRelease => NothingReleased
    /\ FatalExit =>
          /\ terminated /\ exitStatus = 1
          /\ NothingReleased
          /\ ~Made("clEnqueueReadBuffer") /\ ~ReportPrinted

C19_Witness ==
    /\ FatalExit /\ terminated
    /\ context = "valid" /\ program = "valid" /\ queue = "valid"
    /\ calls[Len(calls)] = Call("clCreateKernel", "vector_add_ocl", -5)

====
